---- MODULE Spec2Model ----
(***************************************************************************)
(* Logger of src/src/index.ts (compiled copy: src/lib/index.js): level     *)
(* gate, entry construction, formatting, filtering, fan-out to transports, *)
(* child derivation and transport registry mutation.                       *)
(*                                                                         *)
(* Strings are modelled as sequences of string tokens, so that formatting  *)
(* builds a new, longer text out of the entry and String.includes becomes  *)
(* token membership.  A JavaScript array is an identity (an index into     *)
(* heap) plus its contents, so that two config objects holding the same    *)
(* array reference observe each other's push.                              *)
(***************************************************************************)
EXTENDS Integers, Sequences, FiniteSets, TLC

VARIABLES
  loggers,   \* the Logger objects, in order of construction; 1 is the root;
             \* parent, extra and inherited record how child() made each
  heap,      \* the contents of the transport arrays, by array identity
  calls,     \* the calls of log(): arguments, what each invoked, its promise
  clock,     \* what new Date() returns
  shutdowns, \* the calls of shutdown(): the hooks each invoked, its promise
  lastOp,    \* history: the last configuration call and the lists before it
  removed    \* history: per logger, the transports removed and not added since

vars == <<loggers, heap, calls, clock, shutdowns, lastOp, removed>>

history == <<lastOp, removed>>

(* ------------------------------ bounds -------------------------------- *)
\* loggers (the root and its descendants) where transport lists are mutated
MaxLoggers == 2
\* loggers where only contexts are derived: root, child, grandchild
MaxFamily == 3
\* log calls recorded in one behaviour
MaxCalls == 1
\* length up to which addTransport grows a transport list
MaxLen == 2
\* log calls, or shutdown calls, that may be pending at the same time
MaxPending == 2

\* log calls a caller makes one after the other
MaxSerial == 3

\* shutdown() calls made on a logger
MaxShutdowns == 1

(* ------------------------------ inputs -------------------------------- *)
Levels == {"debug", "info", "warn", "error", "fatal"}

Transports == {"t1", "t2", "t3"}

Keys == {"app", "userId"}

Absent == "absent"

Vals == {"v1", "v2"}

Contexts == [Keys -> Vals \cup {Absent}]

EmptyContext == [k \in Keys |-> Absent]

Messages == {<<"started">>, <<"password">>}

Undefined == "undefined"

Errors == {Undefined, "DatabaseError"}

(* ------------------------- pure functions ----------------------------- *)
LOG_LEVEL_PRIORITY ==
  [l \in Levels |->
     CASE l = "debug" -> 0
       [] l = "info"  -> 1
       [] l = "warn"  -> 2
       [] l = "error" -> 3
       [] l = "fatal" -> 4]

ShouldLogBelowToo(lg, level) == TRUE

\* shouldLog
ShouldLog(lg, level) ==
  LOG_LEVEL_PRIORITY[level] >= LOG_LEVEL_PRIORITY[lg.minLevel]

\* the spread with the sources in the wrong order
MergeFirstWins(a, b) ==
  [k \in Keys |-> IF a[k] # Absent THEN a[k] ELSE b[k]]

\* { ...a, ...b }: the keys of both, b's value on a key of both
Merge(a, b) ==
  [k \in Keys |-> IF b[k] # Absent THEN b[k] ELSE a[k]]

ToUpperCase(level) ==
  CASE level = "debug" -> "DEBUG"
    [] level = "info"  -> "INFO"
    [] level = "warn"  -> "WARN"
    [] level = "error" -> "ERROR"
    [] level = "fatal" -> "FATAL"

KeyOrder == <<"app", "userId">>

RECURSIVE StringifyKeys(_, _)
StringifyKeys(ctx, i) ==
  IF i > Len(KeyOrder) THEN <<>>
  ELSE (IF ctx[KeyOrder[i]] # Absent THEN <<KeyOrder[i], ctx[KeyOrder[i]]>> ELSE <<>>)
         \o StringifyKeys(ctx, i + 1)

\* JSON.stringify of a context object
JSONStringify(ctx) == <<"{">> \o StringifyKeys(ctx, 1) \o <<"}">>

\* the default formatter: "[<timestamp>] <LEVEL>: <message> <context> <stack>"
DefaultFormatter(entry) ==
  <<"[", ToString(entry.timestamp), "]", ToUpperCase(entry.level), ":">>
    \o entry.message
    \o JSONStringify(entry.context)
    \o (IF entry.error # Undefined THEN <<entry.error, "stack">> ELSE <<>>)

\* a formatter supplied in the config: "<level>|<message>"
LevelMessageFormatter(entry) == <<entry.level, "|">> \o entry.message

Formatters == {"defaultFormatter", "levelMessage"}

ApplyFormatter(f, entry) ==
  IF f = "defaultFormatter" THEN DefaultFormatter(entry)
  ELSE LevelMessageFormatter(entry)

Includes(text, word) == \E i \in 1..Len(text) : text[i] = word

Filters == {"noPassword", "noUserV2", "userIdLength"}

\* a filter that reads a property of a context value the entry may not have:
\* entry => entry.context.userId.length > 0 throws a TypeError without userId
FilterThrows(f, fe) == f = "userIdLength" /\ fe.context["userId"] = Absent

\* the filters of a config: predicates over the formatted entry
ApplyFilter(f, fe) ==
  IF f = "noPassword" THEN ~Includes(fe.message, "password")
  ELSE IF f = "noUserV2" THEN fe.context["userId"] # "v2"
  ELSE TRUE

(* --------------------------- construction ----------------------------- *)
\* an optional field of a config: absent, or present with a value
None == <<>>

Some(x) == <<x>>

\* constructor: a shallow copy of the config; the transports field keeps
\* the reference it was given, formatter and filters get their defaults
NewLogger(config) ==
  [config EXCEPT
     !.formatter = IF config.formatter = None THEN "defaultFormatter"
                   ELSE config.formatter[1],
     !.filters = IF config.filters = None THEN <<>> ELSE config.filters[1]]

MaxObjects == IF MaxLoggers > MaxFamily THEN MaxLoggers ELSE MaxFamily

ArrayIds == 1..MaxObjects

\* the array a logger's config.transports refers to
TransportsOf(l) == heap[loggers[l].transports]

Referents(ls, a) == {l \in 1..Len(ls) : ls[l].transports = a}

\* a fresh array: an identity no config refers to (the logger's own old
\* array when nothing else refers to it: it is garbage after the assignment)
FreshArray(ls, l) ==
  IF Referents(ls, ls[l].transports) = {l} THEN ls[l].transports
  ELSE CHOOSE a \in ArrayIds :
         /\ Referents(ls, a) = {}
         /\ \A b \in ArrayIds : Referents(ls, b) = {} => a <= b

\* the configs the application constructs its root logger with: the one of
\* example(), one with its own formatter and two filters, one with neither
InitConfigs ==
  {[formatter |-> None, filters |-> Some(<<"noPassword">>)],
   [formatter |-> Some("levelMessage"), filters |-> Some(<<"noPassword", "noUserV2">>)],
   [formatter |-> None, filters |-> None]}

InitLevels == {"info", "warn"}

AppContext == [EmptyContext EXCEPT !["app"] = "v1"]

Init ==
  /\ \E ml \in InitLevels, cf \in InitConfigs :
       loggers = <<NewLogger([minLevel |-> ml, transports |-> 1,
                              defaultContext |-> AppContext,
                              formatter |-> cf.formatter, filters |-> cf.filters,
                              parent |-> 0, extra |-> EmptyContext,
                              inherited |-> EmptyContext])>>
  /\ heap = [a \in ArrayIds |-> IF a = 1 THEN <<"t1", "t3">> ELSE <<>>]
  /\ calls = <<>>
  /\ clock = 0
  /\ shutdowns = <<>>
  /\ lastOp = [op |-> "new", logger |-> 1, transport |-> "none", before |-> <<>>]
  /\ removed = [l \in 1..MaxObjects |-> {}]

(* ------------------------------ dispatch ------------------------------ *)
\* what a transport's write does when invoked: t3 throws synchronously, the
\* others return a completion signal that settles later
WriteOutcome(t) == IF t = "t3" THEN "threw" ELSE "pending"

\* the entry handed on as it was built, the formatter's output dropped
FormattedEntryRaw(lg, entry) == entry

\* { ...entry, message: this.config.formatter!(entry) }
FormattedEntry(lg, entry) ==
  [entry EXCEPT !.message = ApplyFormatter(lg.formatter, entry)]

\* Array.prototype.every: the filters invoked, in list order, up to and
\* including the first that returns false
RECURSIVE Every(_, _, _)
Every(fs, fe, i) ==
  IF i > Len(fs) THEN <<>>
  ELSE LET th == FilterThrows(fs[i], fe)
           r == ~th /\ ApplyFilter(fs[i], fe)
       IN <<[filter |-> fs[i], entry |-> fe, result |-> r, threw |-> th]>>
            \o (IF r THEN Every(fs, fe, i + 1) ELSE <<>>)

SomePassed(filterCalls) ==
  \E i \in 1..Len(filterCalls) : filterCalls[i].result

\* if (!filters.every(...)) return
AllPassed(filterCalls) ==
  \A i \in 1..Len(filterCalls) : filterCalls[i].result

\* a plain loop with no try around the write: a synchronous throw ends it
WritePromisesUntilThrow(list, fe) ==
  LET n == IF \E i \in 1..Len(list) : WriteOutcome(list[i]) = "threw"
           THEN CHOOSE i \in 1..Len(list) :
                  /\ WriteOutcome(list[i]) = "threw"
                  /\ \A j \in 1..(i - 1) : WriteOutcome(list[j]) # "threw"
           ELSE Len(list)
  IN [i \in 1..n |->
        [transport |-> list[i], entry |-> fe, state |-> WriteOutcome(list[i])]]

\* transports.map(async transport => { try { await transport.write(fe) } ... })
WritePromises(list, fe) ==
  [i \in 1..Len(list) |->
     [transport |-> list[i], entry |-> fe, state |-> WriteOutcome(list[i])]]

\* a map callback without the catch
WrapperNoCatch(w) ==
  IF w.state = "pending" THEN "pending"
  ELSE IF w.state = "fulfilled" THEN "fulfilled" ELSE "rejected"

\* a map callback that calls write without awaiting it
WrapperNotAwaited(w) == "fulfilled"

\* the promise of one map callback: a failed write is caught, so the callback
\* completes normally once its write has settled either way
Wrapper(w) == IF w.state = "pending" THEN "pending" ELSE "fulfilled"

\* Promise.race / Promise.any in place of Promise.all
PromiseRace(ps) ==
  IF ps = <<>> \/ \E i \in 1..Len(ps) : ps[i] = "fulfilled" THEN "fulfilled"
  ELSE IF \E i \in 1..Len(ps) : ps[i] = "rejected" THEN "rejected"
  ELSE "pending"

\* Promise.all over the given promise states
PromiseAll(ps) ==
  IF \E i \in 1..Len(ps) : ps[i] = "rejected" THEN "rejected"
  ELSE IF \A i \in 1..Len(ps) : ps[i] = "fulfilled" THEN "fulfilled"
  ELSE "pending"

\* a filter's exception caught around every(), and the entry dropped
DispatchStatusSwallowing(filterCalls) ==
  IF AllPassed(filterCalls) THEN "pending" ELSE "resolved"

\* the promise of writeToTransports when it reaches its return or its await:
\* an exception of a filter leaves every() and the function, uncaught
DispatchStatus(filterCalls) ==
  IF \E i \in 1..Len(filterCalls) : filterCalls[i].threw THEN "rejected"
  ELSE IF AllPassed(filterCalls) THEN "pending" ELSE "resolved"

WriteToTransports(lg, list, entry) ==
  LET fe == FormattedEntry(lg, entry)
      fc == Every(lg.filters, fe, 1)
  IN [formatterCalls |-> <<entry>>,
      filterCalls |-> fc,
      writes |-> IF AllPassed(fc) THEN WritePromises(list, fe) ELSE <<>>,
      status |-> DispatchStatus(fc)]

BuildEntry(lg, level, message, context, error, now) ==
  [level |-> level, message |-> message, timestamp |-> now,
   context |-> Merge(lg.defaultContext, context), error |-> error,
   tags |-> <<>>, source |-> "application"]

\* the record of one call of log(): its arguments, and what it invoked
LogCall(l, lg, list, level, message, context, error, now) ==
  LET args == [logger |-> l, level |-> level, message |-> message,
               context |-> context, error |-> error, targets |-> list]
      names == {"built", "formatterCalls", "filterCalls", "writes", "status"}
      entry == BuildEntry(lg, level, message, context, error, now)
      d == WriteToTransports(lg, list, entry)
  IN IF ~ShouldLog(lg, level)
     THEN args @@ [built |-> <<>>, formatterCalls |-> <<>>, filterCalls |-> <<>>,
                   writes |-> <<>>, status |-> "resolved"]
     ELSE args @@ [built |-> <<entry>>] @@ d

\* a dispatch that unregisters the transports whose write throws
LogDroppingFailed(l, level, message, context, error) ==
  /\ calls' = Append(calls, LogCall(l, loggers[l], TransportsOf(l), level,
                                    message, context, error, clock))
  /\ clock' = clock + 1
  /\ heap' = [heap EXCEPT ![loggers[l].transports] =
                SelectSeq(@, LAMBDA t : WriteOutcome(t) # "threw")]
  /\ UNCHANGED <<loggers, shutdowns>>

Log(l, level, message, context, error) ==
  /\ calls' = Append(calls, LogCall(l, loggers[l], TransportsOf(l), level,
                                    message, context, error, clock))
  /\ clock' = clock + 1
  /\ UNCHANGED <<loggers, heap, shutdowns>>

Debug(l, message, context) == Log(l, "debug", message, context, Undefined)

Info(l, message, context) == Log(l, "info", message, context, Undefined)

Warn(l, message, context) == Log(l, "warn", message, context, Undefined)

Error(l, message, error, context) == Log(l, "error", message, context, error)

Fatal(l, message, error, context) == Log(l, "fatal", message, context, error)

\* a pending write's completion signal settles
WriteSettles(c, i, outcome) ==
  /\ calls[c].writes[i].state = "pending"
  /\ calls' = [calls EXCEPT ![c].writes[i].state = outcome]
  /\ UNCHANGED <<loggers, heap, clock, shutdowns>>

\* log() completes as soon as one of its writes has settled
LogSettlesOnFirst(c) ==
  /\ calls[c].status = "pending"
  /\ \/ calls[c].writes = <<>>
     \/ \E i \in 1..Len(calls[c].writes) : Wrapper(calls[c].writes[i]) # "pending"
  /\ calls' = [calls EXCEPT ![c].status = "resolved"]
  /\ UNCHANGED <<loggers, heap, clock, shutdowns>>

\* await Promise.all(writePromises) resumes and log() completes
LogSettles(c) ==
  /\ calls[c].status = "pending"
  /\ LET all == PromiseAll([i \in 1..Len(calls[c].writes) |-> Wrapper(calls[c].writes[i])])
     IN /\ all # "pending"
        /\ calls' = [calls EXCEPT ![c].status =
                       IF all = "fulfilled" THEN "resolved" ELSE "rejected"]
  /\ UNCHANGED <<loggers, heap, clock, shutdowns>>

(* ---------------------- registry and derivation ----------------------- *)
\* new Logger({ ...this.config, defaultContext: { ...defaultContext, ...extra } })
ChildConfig(lg, p, extra) ==
  [lg EXCEPT !.defaultContext = Merge(lg.defaultContext, extra),
             !.formatter = Some(lg.formatter),
             !.filters = Some(lg.filters),
             !.parent = p, !.extra = extra, !.inherited = lg.defaultContext]

\* a child that writes the extra keys into the parent's own defaultContext
ChildLoggersSharingContext(ls, p, extra) ==
  Append([ls EXCEPT ![p].defaultContext = Merge(ls[p].defaultContext, extra)],
         NewLogger(ChildConfig(ls[p], p, extra)))

\* the loggers after p.child(extra): p as it was, and the new logger
ChildLoggers(ls, p, extra) ==
  Append(ls, NewLogger(ChildConfig(ls[p], p, extra)))

Child(p, extra) ==
  /\ loggers' = ChildLoggers(loggers, p, extra)
  /\ UNCHANGED <<heap, calls, clock, shutdowns>>

\* a push that also reaches the calls of the logger that are still pending
AddTransportRetroactive(l, t) ==
  /\ heap' = [heap EXCEPT ![loggers[l].transports] = Append(@, t)]
  /\ calls' = [c \in 1..Len(calls) |->
                 IF calls[c].logger = l /\ calls[c].status = "pending"
                 THEN [calls[c] EXCEPT !.writes = Append(@,
                         [transport |-> t,
                          entry |-> FormattedEntry(loggers[l], calls[c].built[1]),
                          state |-> WriteOutcome(t)])]
                 ELSE calls[c]]
  /\ UNCHANGED <<loggers, clock, shutdowns>>

\* this.config.transports.push(transport)
AddTransport(l, t) ==
  /\ heap' = [heap EXCEPT ![loggers[l].transports] = Append(@, t)]
  /\ UNCHANGED <<loggers, calls, clock, shutdowns>>

\* transports.splice(transports.indexOf(t), 1): index -1 removes the last one
FilterOutOrPop(list, t) ==
  IF \E i \in 1..Len(list) : list[i] = t
  THEN SelectSeq(list, LAMBDA x : x # t)
  ELSE SubSeq(list, 1, Len(list) - 1)

\* transports.filter(t => t !== transport)
FilterOut(list, t) == SelectSeq(list, LAMBDA x : x # t)

\* this.config.transports = this.config.transports.filter(...)
RemoveTransport(l, t) ==
  LET a == FreshArray(loggers, l)
      old == loggers[l].transports
  IN /\ heap' = [b \in ArrayIds |->
                   IF b = a THEN FilterOut(TransportsOf(l), t)
                   ELSE heap[b]]
     /\ loggers' = [loggers EXCEPT ![l].transports = a]
     /\ UNCHANGED <<calls, clock, shutdowns>>

(* ------------------------------ shutdown ------------------------------ *)
\* the transports of a process that shuts its logger down: t4 is one more
\* transport, whose shutdown hook throws
ShutdownTransports == Transports \cup {"t4"}

\* what a transport's shutdown hook does when invoked: t3 has no hook, t4's
\* throws synchronously, the others return a completion signal that settles
\* later
ShutdownOutcome(t) ==
  IF t = "t3" THEN "none" ELSE IF t = "t4" THEN "threw" ELSE "pending"

\* transports.filter(transport => transport.shutdown)
WithShutdown(list) == SelectSeq(list, LAMBDA t : ShutdownOutcome(t) # "none")

\* .map(transport => transport.shutdown!()): the hooks invoked, in list
\* order; nothing catches, so a hook that throws ends the map
ShutdownPromises(list) ==
  LET n == IF \E i \in 1..Len(list) : ShutdownOutcome(list[i]) = "threw"
           THEN CHOOSE i \in 1..Len(list) :
                  /\ ShutdownOutcome(list[i]) = "threw"
                  /\ \A j \in 1..(i - 1) : ShutdownOutcome(list[j]) # "threw"
           ELSE Len(list)
  IN [i \in 1..n |-> [transport |-> list[i], state |-> ShutdownOutcome(list[i])]]

\* Promise.allSettled in place of Promise.all
ShutdownAwaitAllSettled(hooks) ==
  IF \E i \in 1..Len(hooks) : hooks[i].state = "pending" THEN "pending"
  ELSE "fulfilled"

\* await Promise.all(shutdownPromises)
ShutdownAwait(hooks) == PromiseAll([i \in 1..Len(hooks) |-> hooks[i].state])

\* shutdown(): reason is the position, among the hooks invoked, of the hook
\* whose error the returned promise carries (0: none)
Shutdown(l) ==
  LET hooks == ShutdownPromises(WithShutdown(TransportsOf(l)))
      threw == {i \in 1..Len(hooks) : hooks[i].state = "threw"}
  IN /\ shutdowns' = Append(shutdowns,
          [logger |-> l, targets |-> TransportsOf(l), hooks |-> hooks,
           reason |-> IF threw = {} THEN 0 ELSE CHOOSE i \in threw : TRUE,
           status |-> IF threw = {} THEN "pending" ELSE "rejected"])
     /\ UNCHANGED <<loggers, heap, calls, clock>>

\* a pending hook's completion signal settles; Promise.all takes the error
\* of the first that rejects
HookSettles(s, i, outcome) ==
  /\ shutdowns[s].hooks[i].state = "pending"
  /\ shutdowns' = [shutdowns EXCEPT
       ![s].hooks[i].state = outcome,
       ![s].reason = IF outcome = "rejected" /\ @ = 0 THEN i ELSE @]
  /\ UNCHANGED <<loggers, heap, calls, clock>>

\* await Promise.all(shutdownPromises) resumes and shutdown() completes
ShutdownSettles(s) ==
  /\ shutdowns[s].status = "pending"
  /\ LET all == ShutdownAwait(shutdowns[s].hooks)
     IN /\ all # "pending"
        /\ shutdowns' = [shutdowns EXCEPT ![s].status =
                           IF all = "fulfilled" THEN "resolved" ELSE "rejected"]
  /\ UNCHANGED <<loggers, heap, calls, clock>>

ShutdownIds == 1..Len(shutdowns)

LoggerIds == 1..Len(loggers)

CallIds == 1..Len(calls)

\* the contexts the callers pass
CallContexts == {EmptyContext, [app |-> "v2", userId |-> "v2"]}

ChildContexts == {[EmptyContext EXCEPT !["userId"] = "v1"],
                  [EmptyContext EXCEPT !["app"] = "v2"]}

\* The loggers are configured, then used: every configuration that child,
\* addTransport and removeTransport reach, and every log call in it.
Next ==
  \/ \E p \in LoggerIds, x \in ChildContexts :
       /\ calls = <<>>
       /\ Len(loggers) < MaxLoggers
       /\ Child(p, x)
       /\ UNCHANGED history
  \/ \E l \in LoggerIds, t \in Transports :
       /\ calls = <<>>
       /\ Len(TransportsOf(l)) < MaxLen
       /\ AddTransport(l, t)
       /\ UNCHANGED history
  \/ \E l \in LoggerIds, t \in Transports :
       /\ calls = <<>>
       /\ RemoveTransport(l, t)
       /\ UNCHANGED history
  \/ \E l \in LoggerIds, lv \in Levels, m \in Messages, c \in CallContexts, e \in Errors :
       Len(calls) < MaxCalls /\ Log(l, lv, m, c, e) /\ UNCHANGED history
  \/ \E l \in LoggerIds, m \in Messages, c \in CallContexts :
       Len(calls) < MaxCalls /\ Debug(l, m, c) /\ UNCHANGED history
  \/ \E l \in LoggerIds, m \in Messages, c \in CallContexts :
       Len(calls) < MaxCalls /\ Info(l, m, c) /\ UNCHANGED history
  \/ \E l \in LoggerIds, m \in Messages, c \in CallContexts :
       Len(calls) < MaxCalls /\ Warn(l, m, c) /\ UNCHANGED history
  \/ \E l \in LoggerIds, m \in Messages, c \in CallContexts, e \in Errors :
       Len(calls) < MaxCalls /\ Error(l, m, e, c) /\ UNCHANGED history
  \/ \E l \in LoggerIds, m \in Messages, c \in CallContexts, e \in Errors :
       Len(calls) < MaxCalls /\ Fatal(l, m, e, c) /\ UNCHANGED history
  \/ \E c \in CallIds : \E i \in 1..Len(calls[c].writes), o \in {"fulfilled", "rejected"} :
       WriteSettles(c, i, o) /\ UNCHANGED history
  \/ \E c \in CallIds : LogSettles(c) /\ UNCHANGED history

Spec == Init /\ [][Next]_vars

(* ------------- the registry, with its history recorded ---------------- *)
Lists == [l \in LoggerIds |-> TransportsOf(l)]

Observe(op, l, t) ==
  lastOp' = [op |-> op, logger |-> l, transport |-> t, before |-> Lists]

\* the root logger of example()
InitRegistry ==
  /\ Init
  /\ loggers[1].minLevel = "info"
  /\ loggers[1].formatter = "defaultFormatter"
  /\ loggers[1].filters = <<"noPassword">>

NextRegistry ==
  \/ \E p \in LoggerIds, x \in ChildContexts :
       /\ calls = <<>>
       /\ Len(loggers) < MaxLoggers
       /\ Child(p, x)
       /\ Observe("child", p, "none")
       /\ UNCHANGED removed
  \/ \E l \in LoggerIds, t \in Transports :
       /\ calls = <<>>
       /\ Len(TransportsOf(l)) < MaxLen
       /\ AddTransport(l, t)
       /\ Observe("addTransport", l, t)
       /\ removed' = [removed EXCEPT ![l] = @ \ {t}]
  \/ \E l \in LoggerIds, t \in Transports :
       /\ calls = <<>>
       /\ RemoveTransport(l, t)
       /\ Observe("removeTransport", l, t)
       /\ removed' = [removed EXCEPT ![l] = @ \cup {t}]
  \/ \E l \in LoggerIds, m \in Messages :
       /\ Len(calls) < MaxCalls
       /\ Error(l, m, "DatabaseError", EmptyContext)
       /\ UNCHANGED history
  \/ \E c \in CallIds : \E i \in 1..Len(calls[c].writes), o \in {"fulfilled", "rejected"} :
       WriteSettles(c, i, o) /\ UNCHANGED history
  \/ \E c \in CallIds : LogSettles(c) /\ UNCHANGED history

SpecRegistry == InitRegistry /\ [][NextRegistry]_vars

(* ---------------- families of loggers and their contexts -------------- *)
NextContext ==
  \/ \E p \in LoggerIds, x \in Contexts :
       /\ calls = <<>>
       /\ Len(loggers) < MaxFamily
       /\ Child(p, x)
       /\ UNCHANGED history
  \/ \E l \in LoggerIds, lv \in Levels, c \in Contexts :
       /\ Len(calls) < MaxCalls
       /\ Log(l, lv, <<"started">>, c, Undefined)
       /\ UNCHANGED history
  \/ \E c \in CallIds : \E i \in 1..Len(calls[c].writes), o \in {"fulfilled", "rejected"} :
       WriteSettles(c, i, o) /\ UNCHANGED history
  \/ \E c \in CallIds : LogSettles(c) /\ UNCHANGED history

SpecContext == Init /\ [][NextContext]_vars

(* ------- one logger, reconfigured while its calls are pending --------- *)
\* what the callers of the live logger pass: a level below and one above the
\* minimum level of example()
LiveLevels == {"debug", "error"}

NextLive ==
  \/ \E t \in Transports :
       /\ Len(TransportsOf(1)) < MaxLen
       /\ AddTransport(1, t)
       /\ UNCHANGED history
  \/ \E t \in Transports : RemoveTransport(1, t) /\ UNCHANGED history
  \/ \E lv \in LiveLevels, m \in Messages :
       /\ Len(calls) < MaxPending
       /\ Log(1, lv, m, EmptyContext, Undefined)
       /\ UNCHANGED history
  \/ \E c \in CallIds : \E i \in 1..Len(calls[c].writes), o \in {"fulfilled", "rejected"} :
       WriteSettles(c, i, o) /\ UNCHANGED history
  \/ \E c \in CallIds : LogSettles(c) /\ UNCHANGED history

\* the event loop resumes a log() whose Promise.all has settled; nothing
\* obliges a transport to settle its write
LiveFairness ==
  \A c \in 1..MaxPending :
    WF_vars(c \in CallIds /\ LogSettles(c) /\ UNCHANGED history)

SpecLive == InitRegistry /\ [][NextLive]_vars /\ LiveFairness

(* ------------------- a logger configured, then shut down -------------- *)
NextShutdown ==
  \/ \E t \in ShutdownTransports :
       /\ shutdowns = <<>>
       /\ Len(TransportsOf(1)) < MaxLen
       /\ AddTransport(1, t)
       /\ UNCHANGED history
  \/ \E t \in ShutdownTransports :
       /\ shutdowns = <<>>
       /\ RemoveTransport(1, t)
       /\ UNCHANGED history
  \/ /\ Len(shutdowns) < MaxShutdowns
     /\ Shutdown(1)
     /\ UNCHANGED history
  \/ \E s \in ShutdownIds :
       \E i \in 1..Len(shutdowns[s].hooks), o \in {"fulfilled", "rejected"} :
         HookSettles(s, i, o) /\ UNCHANGED history
  \/ \E s \in ShutdownIds : ShutdownSettles(s) /\ UNCHANGED history

\* the continuation of an await runs once the awaited promise has settled
ShutdownFairness ==
  \A s \in 1..MaxShutdowns :
    WF_vars(s \in ShutdownIds /\ ShutdownSettles(s) /\ UNCHANGED history)

SpecShutdown == InitRegistry /\ [][NextShutdown]_vars /\ ShutdownFairness

(* ------------------- loggers with a filter that throws ---------------- *)
ThrowingFilterLists ==
  {<<"userIdLength">>, <<"noPassword", "userIdLength">>,
   <<"userIdLength", "noPassword">>}

InitThrowing ==
  /\ \E ml \in InitLevels, fs \in ThrowingFilterLists :
       loggers = <<NewLogger([minLevel |-> ml, transports |-> 1,
                              defaultContext |-> AppContext,
                              formatter |-> None, filters |-> Some(fs),
                              parent |-> 0, extra |-> EmptyContext,
                              inherited |-> EmptyContext])>>
  /\ heap = [a \in ArrayIds |-> IF a = 1 THEN <<"t1", "t3">> ELSE <<>>]
  /\ calls = <<>>
  /\ clock = 0
  /\ shutdowns = <<>>
  /\ lastOp = [op |-> "new", logger |-> 1, transport |-> "none", before |-> <<>>]
  /\ removed = [l \in 1..MaxObjects |-> {}]

NextThrowing ==
  \/ \E p \in LoggerIds, x \in ChildContexts :
       /\ calls = <<>>
       /\ Len(loggers) < MaxLoggers
       /\ Child(p, x)
       /\ UNCHANGED history
  \/ \E l \in LoggerIds, lv \in Levels, m \in Messages, c \in CallContexts, e \in Errors :
       Len(calls) < MaxCalls /\ Log(l, lv, m, c, e) /\ UNCHANGED history
  \/ \E c \in CallIds : \E i \in 1..Len(calls[c].writes), o \in {"fulfilled", "rejected"} :
       WriteSettles(c, i, o) /\ UNCHANGED history
  \/ \E c \in CallIds : LogSettles(c) /\ UNCHANGED history

SpecThrowing == InitThrowing /\ [][NextThrowing]_vars

(* ------------- a caller that awaits each log call in turn ------------- *)
\* await logger.log(...) has returned for every call made so far
AllAwaited == \A c \in CallIds : calls[c].status # "pending"

\* the caller is one thread of control: it reconfigures the logger between
\* two awaited calls
NextSerial ==
  \/ \E t \in Transports :
       /\ AllAwaited
       /\ Len(TransportsOf(1)) < MaxLen
       /\ AddTransport(1, t)
       /\ UNCHANGED history
  \/ \E t \in Transports :
       /\ AllAwaited
       /\ RemoveTransport(1, t)
       /\ UNCHANGED history
  \/ \E lv \in LiveLevels :
       /\ AllAwaited
       /\ Len(calls) < MaxSerial
       /\ Log(1, lv, <<"started">>, EmptyContext, Undefined)
       /\ UNCHANGED history
  \/ \E c \in CallIds : \E i \in 1..Len(calls[c].writes), o \in {"fulfilled", "rejected"} :
       WriteSettles(c, i, o) /\ UNCHANGED history
  \/ \E c \in CallIds : LogSettles(c) /\ UNCHANGED history

SpecSerial == InitRegistry /\ [][NextSerial]_vars

(* --------------- the Logger of src/unnamed/part_000 ------------------- *)
\* constructor(config) { this.config = config }: the optional fields stay
\* as the caller gave them
VariantLogger(config) == config

\* for (const transport of this.config.transports) { transport.write(entry) }:
\* the writes invoked, in list order; nothing catches, so a write that throws
\* ends the loop
VariantWrites(list, entry) ==
  LET n == IF \E i \in 1..Len(list) : WriteOutcome(list[i]) = "threw"
           THEN CHOOSE i \in 1..Len(list) :
                  /\ WriteOutcome(list[i]) = "threw"
                  /\ \A j \in 1..(i - 1) : WriteOutcome(list[j]) # "threw"
           ELSE Len(list)
  IN [i \in 1..n |->
        [transport |-> list[i], entry |-> entry, state |-> WriteOutcome(list[i])]]

\* log(level, message, context): the message goes to the console, the entry
\* is built from the arguments alone and written to every transport; the
\* level is not compared with config.minLevel and no write is awaited
VariantLog(l, level, message, context) ==
  LET list == TransportsOf(l)
      entry == [level |-> level, message |-> message, timestamp |-> clock,
                context |-> context]
      writes == VariantWrites(list, entry)
  IN /\ calls' = Append(calls,
          [logger |-> l, level |-> level, message |-> message,
           context |-> context, error |-> Undefined, targets |-> list,
           built |-> <<entry>>, formatterCalls |-> <<>>, filterCalls |-> <<>>,
           writes |-> writes,
           status |-> IF \E i \in 1..Len(writes) : writes[i].state = "threw"
                      THEN "rejected" ELSE "resolved"])
     /\ clock' = clock + 1
     /\ UNCHANGED <<loggers, heap, shutdowns>>

VariantDebug(l, message, context) == VariantLog(l, "debug", message, context)

VariantInfo(l, message, context) == VariantLog(l, "info", message, context)

VariantWarn(l, message, context) == VariantLog(l, "warn", message, context)

\* error(message, error, context): the error is not passed on
VariantError(l, message, error, context) == VariantLog(l, "error", message, context)

\* new Logger({ ...this.config, defaultContext: { ...defaultContext, ...extra } })
VariantChild(p, extra) ==
  /\ loggers' = Append(loggers, VariantLogger(
       [loggers[p] EXCEPT !.defaultContext = Merge(loggers[p].defaultContext, extra),
                          !.parent = p, !.extra = extra,
                          !.inherited = loggers[p].defaultContext]))
  /\ UNCHANGED <<heap, calls, clock, shutdowns>>

\* this.config.transports.push(transport)
VariantAddTransport(l, t) ==
  /\ heap' = [heap EXCEPT ![loggers[l].transports] = Append(@, t)]
  /\ UNCHANGED <<loggers, calls, clock, shutdowns>>

\* this.config.transports = this.config.transports.filter(item => item !== transport)
VariantRemoveTransport(l, t) ==
  LET a == FreshArray(loggers, l)
  IN /\ heap' = [b \in ArrayIds |->
                   IF b = a THEN SelectSeq(TransportsOf(l), LAMBDA item : item # t)
                   ELSE heap[b]]
     /\ loggers' = [loggers EXCEPT ![l].transports = a]
     /\ UNCHANGED <<calls, clock, shutdowns>>

\* a write that was not awaited settles
VariantWriteSettles(c, i, outcome) ==
  /\ calls[c].writes[i].state = "pending"
  /\ calls' = [calls EXCEPT ![c].writes[i].state = outcome]
  /\ UNCHANGED <<loggers, heap, clock, shutdowns>>

InitVariant ==
  /\ \E ml \in InitLevels :
       loggers = <<VariantLogger([minLevel |-> ml, transports |-> 1,
                                  defaultContext |-> AppContext,
                                  formatter |-> None, filters |-> None,
                                  parent |-> 0, extra |-> EmptyContext,
                                  inherited |-> EmptyContext])>>
  /\ heap = [a \in ArrayIds |-> IF a = 1 THEN <<"t1", "t3">> ELSE <<>>]
  /\ calls = <<>>
  /\ clock = 0
  /\ shutdowns = <<>>
  /\ lastOp = [op |-> "new", logger |-> 1, transport |-> "none", before |-> <<>>]
  /\ removed = [l \in 1..MaxObjects |-> {}]

NextVariant ==
  \/ \E p \in LoggerIds, x \in ChildContexts :
       /\ calls = <<>>
       /\ Len(loggers) < MaxLoggers
       /\ VariantChild(p, x)
       /\ UNCHANGED history
  \/ \E l \in LoggerIds, t \in Transports :
       /\ calls = <<>>
       /\ Len(TransportsOf(l)) < MaxLen
       /\ VariantAddTransport(l, t)
       /\ UNCHANGED history
  \/ \E l \in LoggerIds, t \in Transports :
       /\ calls = <<>>
       /\ VariantRemoveTransport(l, t)
       /\ UNCHANGED history
  \/ \E l \in LoggerIds, lv \in Levels, m \in Messages, c \in CallContexts :
       Len(calls) < MaxCalls /\ VariantLog(l, lv, m, c) /\ UNCHANGED history
  \/ \E l \in LoggerIds, m \in Messages, c \in CallContexts :
       Len(calls) < MaxCalls /\ VariantDebug(l, m, c) /\ UNCHANGED history
  \/ \E l \in LoggerIds, m \in Messages, c \in CallContexts :
       Len(calls) < MaxCalls /\ VariantInfo(l, m, c) /\ UNCHANGED history
  \/ \E l \in LoggerIds, m \in Messages, c \in CallContexts :
       Len(calls) < MaxCalls /\ VariantWarn(l, m, c) /\ UNCHANGED history
  \/ \E l \in LoggerIds, m \in Messages, c \in CallContexts, e \in Errors :
       Len(calls) < MaxCalls /\ VariantError(l, m, e, c) /\ UNCHANGED history
  \/ \E c \in CallIds : \E i \in 1..Len(calls[c].writes), o \in {"fulfilled", "rejected"} :
       VariantWriteSettles(c, i, o) /\ UNCHANGED history

SpecVariant == InitVariant /\ [][NextVariant]_vars

(* ============================ properties ============================= *)
Range(f) == {f[i] : i \in DOMAIN f}

LoggerOf(c) == loggers[calls[c].logger]

\* the call was made below the logger's minimum level
Gated(c) ==
  LOG_LEVEL_PRIORITY[calls[c].level] < LOG_LEVEL_PRIORITY[LoggerOf(c).minLevel]

\* some filter returned false for the call's formatted entry
Filtered(c) ==
  \E i \in 1..Len(calls[c].filterCalls) :
    ~calls[c].filterCalls[i].result /\ ~calls[c].filterCalls[i].threw

\* the call was at or above the minimum level and every filter of the logger
\* returned true
Passed(c) ==
  /\ ~Gated(c)
  /\ Len(calls[c].filterCalls) = Len(LoggerOf(c).filters)
  /\ ~Filtered(c)

Failed(w) == w.state \in {"threw", "rejected"}

WritesTo(c, t) == {i \in 1..Len(calls[c].writes) : calls[c].writes[i].transport = t}

\* C1: a log call below the logger's minimum level invokes no transport's
\* write, no formatter and no filter, and builds no entry, whatever child,
\* addTransport and removeTransport did before.
C1_GatedInvokesNothing ==
  \A c \in CallIds :
    Gated(c) =>
      /\ calls[c].writes = <<>>
      /\ calls[c].formatterCalls = <<>>
      /\ calls[c].filterCalls = <<>>
      /\ calls[c].built = <<>>

\* a debug call on a child logger that has transports, after the list changed
C1_Witness ==
  \E c \in CallIds :
    /\ Gated(c)
    /\ calls[c].level = "debug"
    /\ calls[c].logger = 2
    /\ Len(calls[c].targets) = 2
    /\ calls[c].targets # <<"t1", "t3">>
    /\ calls[c].status = "resolved"

\* C2 as stated: a passing log call writes exactly once to each transport
\* registered on the logger at the time of the call, and to no other.
C2_OneWritePerTransport ==
  \A c \in CallIds :
    Passed(c) =>
      \A t \in Transports :
        Cardinality(WritesTo(c, t)) = IF t \in Range(calls[c].targets) THEN 1 ELSE 0

\* C2 amended: a passing log call writes exactly once per position of the
\* logger's transport list at the time of the call, in list order, and the
\* writes of a call never grow afterwards (no retry); a transport that is in
\* the list k times is written k times.
C2_OneWritePerRegistration ==
  \A c \in CallIds :
    Passed(c) =>
      /\ Len(calls[c].writes) = Len(calls[c].targets)
      /\ \A i \in 1..Len(calls[c].targets) :
           calls[c].writes[i].transport = calls[c].targets[i]
      /\ \A t \in Transports :
           Cardinality(WritesTo(c, t))
             = Cardinality({i \in 1..Len(calls[c].targets) : calls[c].targets[i] = t})

\* a settled call on a list that holds a failing transport before another one
C2_Witness ==
  \E c \in CallIds :
    /\ Passed(c)
    /\ calls[c].targets = <<"t3", "t2">>
    /\ calls[c].writes[1].state = "threw"
    /\ calls[c].writes[2].state = "rejected"
    /\ calls[c].status = "resolved"

\* C3: when a write fails (throws synchronously or rejects), log() is not
\* rejected and completes once the writes have settled, and every position
\* of the list has had its write invoked with the same entry.
C3_WriteFailureIsolated ==
  \A c \in CallIds :
    \A i \in 1..Len(calls[c].writes) :
      Failed(calls[c].writes[i]) =>
        /\ calls[c].status # "rejected"
        /\ Len(calls[c].writes) = Len(calls[c].targets)
        /\ \A j \in 1..Len(calls[c].targets) :
             /\ calls[c].writes[j].transport = calls[c].targets[j]
             /\ calls[c].writes[j].entry = calls[c].writes[i].entry
        /\ (\A j \in 1..Len(calls[c].writes) : calls[c].writes[j].state # "pending")
             => \/ calls[c].status = "resolved"
                \/ PromiseAll([j \in 1..Len(calls[c].writes) |->
                                 Wrapper(calls[c].writes[j])]) = "fulfilled"

\* the first transport threw, the second one was written and log() resolved
C3_Witness ==
  \E c \in CallIds :
    /\ calls[c].targets = <<"t3", "t1">>
    /\ Len(calls[c].writes) = 2
    /\ calls[c].writes[1].state = "threw"
    /\ calls[c].writes[2].state = "fulfilled"
    /\ calls[c].writes[2].entry = calls[c].writes[1].entry
    /\ calls[c].status = "resolved"

\* C4: the promise of log() is never resolved while a write issued for that
\* call is pending.
C4_ResolvesAfterAllWrites ==
  \A c \in CallIds :
    calls[c].status # "pending" =>
      \A i \in 1..Len(calls[c].writes) : calls[c].writes[i].state # "pending"

\* two asynchronous writes, one fulfilled and one rejected, then log() resolved
C4_Witness ==
  \E c \in CallIds :
    /\ calls[c].status = "resolved"
    /\ Len(calls[c].writes) = 2
    /\ calls[c].writes[1].state = "rejected"
    /\ calls[c].writes[2].state = "fulfilled"

\* C5: when a filter returns false for the formatted entry, no transport is
\* written and log() resolves.
C5_FilteredReachesNoTransport ==
  \A c \in CallIds :
    Filtered(c) =>
      /\ calls[c].writes = <<>>
      /\ calls[c].status = "resolved"

\* the second filter refused the entry, on a logger with two transports
C5_Witness ==
  \E c \in CallIds :
    /\ Len(calls[c].filterCalls) = 2
    /\ calls[c].filterCalls[1].result
    /\ ~calls[c].filterCalls[2].result
    /\ Len(calls[c].targets) = 2
    /\ calls[c].writes = <<>>
    /\ calls[c].status = "resolved"

\* C6: after c = p.child(extra), c's list equals p's list, and addTransport
\* or removeTransport on one logger leaves the list of every other logger as
\* it was.
C6_ListsIndependent ==
  /\ lastOp.op = "child" =>
       TransportsOf(Len(loggers)) = lastOp.before[lastOp.logger]
  /\ lastOp.op \in {"addTransport", "removeTransport"} =>
       \A l \in LoggerIds :
         l # lastOp.logger => TransportsOf(l) = lastOp.before[l]

\* C9: removeTransport(t) on a logger whose list does not hold t leaves the
\* list as it was, members, order and count, and a log call made next is
\* written to exactly that list.
C9_RemoveAbsentIsNoOp ==
  (/\ lastOp.op = "removeTransport"
   /\ lastOp.transport \notin Range(lastOp.before[lastOp.logger]))
    => /\ TransportsOf(lastOp.logger) = lastOp.before[lastOp.logger]
       /\ \A c \in CallIds :
            (calls[c].logger = lastOp.logger /\ Passed(c)) =>
              [i \in 1..Len(calls[c].writes) |-> calls[c].writes[i].transport]
                = lastOp.before[lastOp.logger]

\* t2 was removed from a list of two that does not hold it, then a call was
\* written to both
C9_Witness ==
  /\ lastOp.op = "removeTransport"
  /\ lastOp.transport = "t2"
  /\ lastOp.before[lastOp.logger] = <<"t1", "t3">>
  /\ \E c \in CallIds :
       /\ calls[c].logger = lastOp.logger
       /\ Len(calls[c].writes) = 2

\* C10: once removeTransport(t) has returned on a logger, t is not in the
\* list that logger dispatches to until addTransport(t) is called on it, and
\* removeTransport(t) keeps every other transport, a twin of t included, in
\* its previous relative order.
C10_RemovedUntilAddedAgain ==
  /\ \A l \in LoggerIds : \A t \in removed[l] : t \notin Range(TransportsOf(l))
  /\ lastOp.op = "removeTransport" =>
       TransportsOf(lastOp.logger)
         = SelectSeq(lastOp.before[lastOp.logger], LAMBDA x : x # lastOp.transport)

\* { ...a, ...b } stated key by key: b's value where b has the key
LaterWins(a, b) == [k \in Keys |-> IF b[k] = Absent THEN a[k] ELSE b[k]]

\* C7: the context of a delivered entry is the logger's defaultContext
\* overridden by the call-site context, and a child's defaultContext is its
\* parent's overridden by the extra context of child().
C7_ContextMerge ==
  /\ \A l \in LoggerIds :
       loggers[l].parent # 0 =>
         loggers[l].defaultContext
           = LaterWins(loggers[loggers[l].parent].defaultContext, loggers[l].extra)
  /\ \A c \in CallIds : \A i \in 1..Len(calls[c].writes) :
       LET ctx == calls[c].writes[i].entry.context
           lg == LoggerOf(c)
       IN /\ ctx = LaterWins(lg.defaultContext, calls[c].context)
          /\ lg.parent # 0 =>
               /\ ctx = LaterWins(LaterWins(loggers[lg.parent].defaultContext, lg.extra),
                                  calls[c].context)
               /\ \A k \in Keys :
                    (lg.extra[k] = Absent /\ calls[c].context[k] = Absent) =>
                      ctx[k] = loggers[lg.parent].defaultContext[k]

\* a grandchild delivers an entry whose context has a key from the root, a
\* key from child() and has the root's app value overridden at the call site
C7_Witness ==
  \E c \in CallIds :
    LET lg == LoggerOf(c)
    IN /\ lg.parent # 0
       /\ loggers[lg.parent].parent # 0
       /\ Len(calls[c].writes) > 0
       /\ lg.extra["userId"] = "v1"
       /\ calls[c].context = [EmptyContext EXCEPT !["app"] = "v2"]
       /\ calls[c].writes[1].entry.context = [app |-> "v2", userId |-> "v1"]
       /\ loggers[1].defaultContext = AppContext

\* l is a child made with k: v when its parent's defaultContext had no key k
Adds(l, k) ==
  /\ loggers[l].parent # 0
  /\ loggers[l].extra[k] # Absent
  /\ loggers[l].inherited[k] = Absent

\* C8 as stated: every entry delivered by the child has k: v, and every
\* entry delivered by the parent has no key k unless the call site gives it.
C8_ChildKeyAlwaysShown ==
  \A c \in CallIds : \A i \in 1..Len(calls[c].writes) : \A k \in Keys :
    LET ctx == calls[c].writes[i].entry.context
    IN /\ Adds(calls[c].logger, k) => ctx[k] = LoggerOf(c).extra[k]
       /\ (\E l \in LoggerIds : loggers[l].parent = calls[c].logger /\ Adds(l, k))
            => ctx[k] = calls[c].context[k]

\* C8 amended: child() leaves the parent's defaultContext as it was; every
\* entry delivered by the child has k: v unless the call site gives k, whose
\* value then wins; every entry delivered by the parent has no key k unless
\* the call site gives it.
C8_ChildKeyUnlessCallSite ==
  /\ \A l \in LoggerIds :
       loggers[l].parent # 0 =>
         loggers[loggers[l].parent].defaultContext = loggers[l].inherited
  /\ \A c \in CallIds : \A i \in 1..Len(calls[c].writes) : \A k \in Keys :
       LET ctx == calls[c].writes[i].entry.context
       IN /\ Adds(calls[c].logger, k) =>
               ctx[k] = IF calls[c].context[k] = Absent THEN LoggerOf(c).extra[k]
                        ELSE calls[c].context[k]
          /\ (\E l \in LoggerIds : loggers[l].parent = calls[c].logger /\ Adds(l, k))
               => ctx[k] = calls[c].context[k]

\* the root has a child and a grandchild that add userId, and delivers an
\* entry without userId
C8_Witness ==
  \E c \in CallIds :
    /\ calls[c].logger = 1
    /\ Len(loggers) = 3
    /\ Adds(2, "userId")
    /\ loggers[3].parent = 2
    /\ loggers[3].defaultContext["userId"] # Absent
    /\ Len(calls[c].writes) > 0
    /\ calls[c].writes[1].entry.context["userId"] = Absent

\* the transports a call has written to, in the order of the writes
Written(call) == [i \in 1..Len(call.writes) |-> call.writes[i].transport]

\* C11: addTransport(t) appends t at the end of the list; a passing log call
\* writes to the list as it is when the call is made, so to every t added
\* before; and the writes of a call already made, pending or not, never
\* change when a transport is added later.
C11_AddIsNotRetroactive ==
  [][/\ \A l \in LoggerIds :
          Len(TransportsOf(l)') > Len(TransportsOf(l)) =>
            \E t \in Transports : TransportsOf(l)' = Append(TransportsOf(l), t)
     /\ \A c \in CallIds : Written(calls'[c]) = Written(calls[c])
     /\ Len(calls') > Len(calls) =>
          (LET n == Len(calls)
           IN Passed(n) => Written(calls[n]) = TransportsOf(calls[n].logger))'
    ]_vars

\* t2 was added while the first call was pending: the second call writes to
\* it, last, and the first call does not
C11_Witness ==
  /\ Len(calls) = 2
  /\ calls[1].status = "pending"
  /\ Written(calls[1]) = <<"t1">>
  /\ calls[1].writes[1].state = "pending"
  /\ TransportsOf(1) = <<"t1", "t2">>
  /\ Written(calls[2]) = <<"t1", "t2">>

\* the invocations of t's shutdown hook made by shutdown call s
HooksOf(s, t) ==
  {i \in 1..Len(shutdowns[s].hooks) : shutdowns[s].hooks[i].transport = t}

\* the places t has in the list shutdown call s was made on
PlacesOf(s, t) ==
  {i \in 1..Len(shutdowns[s].targets) : shutdowns[s].targets[i] = t}

HookFailed(h) == h.state \in {"threw", "rejected"}

\* C12: shutdown() invokes the shutdown hook of every registered transport
\* that has one, once for each place the transport has in the list, and
\* nothing on a transport without a hook, also when the hook of another
\* transport of the list throws or rejects.
C12_EveryHookInvokedOnce ==
  \A s \in ShutdownIds : \A t \in ShutdownTransports :
    Cardinality(HooksOf(s, t)) =
      IF ShutdownOutcome(t) = "none" THEN 0 ELSE Cardinality(PlacesOf(s, t))

\* C13: the completion signal of shutdown() is neither resolved nor rejected
\* while a shutdown hook it invoked is still pending.
C13_SettlesAfterEveryHook ==
  \A s \in ShutdownIds :
    shutdowns[s].status # "pending" =>
      \A i \in 1..Len(shutdowns[s].hooks) : shutdowns[s].hooks[i].state # "pending"

\* C14: a failure of a shutdown hook propagates: shutdown() resolves only
\* when every hook it invoked has succeeded (or it invoked none), it rejects
\* only with the error of a hook that failed, and once a hook has failed it
\* does reject; once every hook has succeeded, or when no transport has a
\* hook, it does resolve.
C14_ShutdownFailurePropagates ==
  /\ [](\A s \in ShutdownIds :
          /\ shutdowns[s].status = "resolved" =>
               \A i \in 1..Len(shutdowns[s].hooks) :
                 shutdowns[s].hooks[i].state = "fulfilled"
          /\ shutdowns[s].status = "rejected" =>
               /\ shutdowns[s].reason \in 1..Len(shutdowns[s].hooks)
               /\ HookFailed(shutdowns[s].hooks[shutdowns[s].reason]))
  /\ \A s \in 1..MaxShutdowns :
       /\ (s \in ShutdownIds /\
             \E i \in 1..Len(shutdowns[s].hooks) : HookFailed(shutdowns[s].hooks[i]))
            ~> (s \in ShutdownIds /\ shutdowns[s].status = "rejected")
       /\ (s \in ShutdownIds /\
             \A i \in 1..Len(shutdowns[s].hooks) :
               shutdowns[s].hooks[i].state = "fulfilled")
            ~> (s \in ShutdownIds /\ shutdowns[s].status = "resolved")

\* shutdown() has rejected with the error of t2's hook, the second to be
\* invoked, after t1's hook succeeded
C14_Witness ==
  \E s \in ShutdownIds :
    /\ shutdowns[s].targets = <<"t1", "t2">>
    /\ shutdowns[s].hooks[1].state = "fulfilled"
    /\ shutdowns[s].hooks[2].state = "rejected"
    /\ shutdowns[s].status = "rejected"
    /\ shutdowns[s].reason = 2

\* some filter threw while it evaluated the call's formatted entry
Threw(c) ==
  \E i \in 1..Len(calls[c].filterCalls) : calls[c].filterCalls[i].threw

\* C15: when a filter throws for a log call at or above the minimum level,
\* the completion signal of log() is rejected, and stays so, and the call
\* invokes no transport's write; no filter after the one that threw is
\* evaluated.
C15_FilterErrorPropagates ==
  \A c \in CallIds :
    Threw(c) =>
      /\ ~Gated(c)
      /\ calls[c].status = "rejected"
      /\ calls[c].writes = <<>>
      /\ calls[c].filterCalls[Len(calls[c].filterCalls)].threw

\* an error call without userId on a logger with transports whose first
\* filter passed and whose second threw
C15_Witness ==
  \E c \in CallIds :
    /\ calls[c].targets # <<>>
    /\ calls[c].level = "error"
    /\ Len(calls[c].filterCalls) = 2
    /\ calls[c].filterCalls[1].result
    /\ calls[c].filterCalls[2].threw
    /\ calls[c].status = "rejected"

\* the entries the filters and the transports of call c were given
Observed(c) ==
  {calls[c].filterCalls[i].entry : i \in 1..Len(calls[c].filterCalls)}
    \cup {calls[c].writes[i].entry : i \in 1..Len(calls[c].writes)}

\* C16: the formatter of the logger is applied once, to the original entry,
\* which carries the raw message; every filter and every transport of the
\* call is given one and the same formatted entry, whose message is the
\* formatter's output and whose level, timestamp, context, error, tags
\* (empty) and source ("application") are those of the original entry.
C16_OneFormattedEntry ==
  \A c \in CallIds :
    ~Gated(c) =>
      LET o == calls[c].built[1]
      IN /\ calls[c].formatterCalls = <<o>>
         /\ o.message = calls[c].message
         /\ o.level = calls[c].level
         /\ o.error = calls[c].error
         /\ o.tags = <<>>
         /\ o.source = "application"
         /\ \A x \in Observed(c) :
              /\ x.message = ApplyFormatter(LoggerOf(c).formatter, o)
              /\ x.level = o.level
              /\ x.timestamp = o.timestamp
              /\ x.context = o.context
              /\ x.error = o.error
              /\ x.tags = o.tags
              /\ x.source = o.source

\* a call with an error, on a logger with its own formatter, that went
\* through two filters and to two transports
C16_Witness ==
  \E c \in CallIds :
    /\ LoggerOf(c).formatter = "levelMessage"
    /\ calls[c].error = "DatabaseError"
    /\ Len(calls[c].filterCalls) = 2
    /\ Len(calls[c].writes) = 2
    /\ calls[c].writes[2].entry.message = <<"fatal", "|", "started">>

\* C17: a step of a dispatch (a log call at any level, gated out, filtered
\* out or delivered, the settling of one of its writes, its completion)
\* changes no logger's minLevel, transport list, defaultContext, formatter or
\* filters; and every passing call, however many calls are pending on the
\* logger, has written to exactly the list the logger had when it was made.
C17_DispatchIsReadOnly ==
  [][/\ calls' # calls => loggers' = loggers /\ heap' = heap
     /\ \A c \in 1..Len(calls') :
          (Passed(c) => Written(calls[c]) = calls[c].targets)'
    ]_vars

\* two calls pending together on one logger, made on different lists, one of
\* them with a transport whose write threw
C17_Witness ==
  /\ Len(calls) = 2
  /\ calls[1].status = "pending"
  /\ calls[2].status = "pending"
  /\ calls[1].targets = <<"t1", "t3">>
  /\ calls[2].targets = <<"t1", "t2">>
  /\ TransportsOf(1) = calls[2].targets
  /\ Written(calls[1]) = calls[1].targets
  /\ calls[1].writes[2].state = "threw"

\* some write of call c has been invoked and has not settled
Hanging(c) ==
  \E i \in 1..Len(calls[c].writes) : calls[c].writes[i].state = "pending"

\* C19: once every write of a log call has settled, successfully or not, the
\* completion signal of log() resolves; as long as one of its writes has not
\* settled, the signal is neither resolved nor rejected, and the writes to
\* all the transports of the list have been invoked all the same.
C19_ResolvesIffWritesSettle ==
  /\ \A c \in 1..MaxPending :
       (c \in CallIds /\ ~Hanging(c)) ~> (c \in CallIds /\ calls[c].status = "resolved")
  /\ [](\A c \in CallIds :
          Hanging(c) =>
            /\ calls[c].status = "pending"
            /\ Written(calls[c]) = calls[c].targets)

\* the first call resolved after its write was rejected; the second is held
\* by t1's write, and its write to t2 has been invoked and has succeeded
C19_Witness ==
  /\ Len(calls) = 2
  /\ calls[1].status = "resolved"
  /\ \E i \in 1..Len(calls[1].writes) : calls[1].writes[i].state = "rejected"
  /\ calls[2].status = "pending"
  /\ Written(calls[2]) = <<"t1", "t2">>
  /\ calls[2].writes[1].state = "pending"
  /\ calls[2].writes[2].state = "fulfilled"

\* C18: when the caller awaits each log call before it makes the next, the
\* writes of a call are invoked only after every write of every earlier call
\* has settled, so each transport is given the entries in call order, one
\* write at a time.
C18_SerializedCallsWriteInOrder ==
  [][Len(calls') > Len(calls) =>
       /\ \A c \in CallIds : ~Hanging(c)
       /\ \A c \in CallIds :
            calls[c].built # <<>> /\ calls'[Len(calls')].built # <<>> =>
              calls[c].built[1].timestamp < calls'[Len(calls')].built[1].timestamp
    ]_vars

\* the third call is writing to t1 and t2 after the first two calls wrote to
\* t1, one write rejected and one fulfilled
C18_Witness ==
  /\ Len(calls) = 3
  /\ calls[1].writes # <<>> /\ calls[1].writes[1].state = "rejected"
  /\ calls[2].writes # <<>> /\ calls[2].writes[1].state = "fulfilled"
  /\ Written(calls[3]) = <<"t1", "t2">>
  /\ calls[3].writes[1].state = "pending"
  /\ calls[3].writes[2].state = "pending"

\* C20: in the Logger of src/unnamed/part_000, a log call at a level below
\* config.minLevel invokes no transport's write.
C20_VariantGatedInvokesNothing ==
  \A c \in CallIds : Gated(c) => calls[c].writes = <<>>

====
